---- MODULE Spec2Model ----
(***************************************************************************)
(* Model of randwire-pytorch: the random DAG generator (graph.py), the     *)
(* liveness plan and the executor of RandomNetwork (randomnet.py) and the  *)
(* reorder search of graph.py's test().                                    *)
(*                                                                         *)
(* Node ids are 0..n-1.  An undirected graph is a set of two-element sets  *)
(* {u, v}; a directed graph is a set of pairs <<u, v>>.  Python lists that *)
(* are indexed by position (nxorder, live, ispans) are functions on        *)
(* 0..n-1 so that positions are the code's own 0-based positions; lists    *)
(* that grow and shrink (outs, Gs) are sequences.  A tensor is modelled by *)
(* the id of the node that produced it.                                    *)
(***************************************************************************)
EXTENDS Integers, Sequences, FiniteSets

VARIABLES
    \* RandomNetwork (randomnet.py)
    nxgraph,      \* self.nxgraph: [n |-> node count, edges |-> set of <<u, v>>]
    nxorder,      \* self.nxorder: position -> node id
    live,         \* self.live: position -> ascending sequence of positions
    bottom_layer, \* self.bottom_layer: the out-degree-zero nodes
    outs,         \* forward's list of held buffers
    fed,          \* position -> the inputs handed to the node run there
    order,        \* forward's loop index
    epc,          \* "init" | "forward" | "done" | "ValueError" | "IndexError"
    \* get_graphs / GraphGenerator.generate (graph.py)
    gargs,        \* the arguments of get_graphs
    seeds,        \* get_graphs' local list of seeds
    Gs,           \* get_graphs' result list
    gi,           \* get_graphs' loop index
    gpc,          \* position inside get_graphs / generate
    U,            \* generate's undirected graph G
    D,            \* generate's directed graph G (after nx.DiGraph)
    drawn,        \* whether the seeded generator of this call has drawn already
    wsj, wsu,     \* watts_strogatz_graph's rewiring loop indices
    basrc,        \* barabasi_albert_graph's loop index (source)
    barep,        \* barabasi_albert_graph's repeated_nodes (as a set)
    \* the reorder search of test() (graph.py)
    sG,           \* test's G
    min_lives,    \* test's min_lives
    Gopt,         \* test's Gopt
    si,           \* test's loop index i
    evaluated     \* history: the labelings measured so far, with their peaks

execVars   == <<nxgraph, nxorder, live, bottom_layer, outs, fed, order, epc>>
genVars    == <<gargs, seeds, Gs, gi, gpc, U, D, drawn, wsj, wsu, basrc, barep>>
searchVars == <<sG, min_lives, Gopt, si, evaluated>>
vars       == <<execVars, genVars, searchVars>>

\* Largest node count of the DAGs handed to RandomNetwork.
MaxNodes == 4

Nodes(n) == 0 .. (n - 1)

Max(S) == CHOOSE x \in S : \A y \in S : y <= x
Min(S) == CHOOSE x \in S : \A y \in S : x <= y

\* The elements of a sequence.
Range(s) == {s[i] : i \in DOMAIN s}

\* An ascending sequence of the elements of a finite set of integers.
RECURSIVE SortedSeq(_)
SortedSeq(S) == IF S = {} THEN <<>> ELSE <<Min(S)>> \o SortedSeq(S \ {Min(S)})

\* list.index(x), 0-based; -1 stands for the ValueError of an absent element.
Index(s, x) ==
    IF x \in Range(s) THEN Min({i \in DOMAIN s : s[i] = x}) - 1 ELSE -1

------------------------------------------------------------------------------
(* Directed graphs *)

Succ(E, u) == {e[2] : e \in {d \in E : d[1] = u}}
Pred(E, v) == {e[1] : e \in {d \in E : d[2] = v}}

\* DAGs the generator can hand out: edges go from the lower to the higher id.
ForwardPairs(n) == {e \in Nodes(n) \X Nodes(n) : e[1] < e[2]}
ForwardDags(n) == [n : {n}, edges : SUBSET ForwardPairs(n)]

Star5 == [n |-> 5, edges |-> {<<0, 1>>, <<0, 2>>, <<0, 3>>, <<0, 4>>}]
Chain5 == [n |-> 5, edges |-> {<<0, 1>>, <<1, 2>>, <<2, 3>>, <<3, 4>>}]

\* Position of node v in an order (a function 0..n-1 -> node).
PosOf(ord, v) == CHOOSE i \in DOMAIN ord : ord[i] = v

IsTopological(n, E, ord) ==
    /\ \A i, j \in Nodes(n) : i # j => ord[i] # ord[j]
    /\ \A e \in E : PosOf(ord, e[1]) < PosOf(ord, e[2])

\* nx.topological_sort promises a topological order and nothing about which
\* one: the outcome depends on the library's version and on insertion order.
TopologicalSorts(n, E) ==
    {ord \in [Nodes(n) -> Nodes(n)] : IsTopological(n, E, ord)}

\* nx.lexicographical_topological_sort: Kahn's algorithm taking the smallest
\* ready node first.  Returns the order as a sequence of nodes.
RECURSIVE LexKahn(_, _, _)
LexKahn(n, E, done) ==
    LET ready == {v \in Nodes(n) \ done : Pred(E, v) \subseteq done}
    IN  IF ready = {} THEN <<>>
        ELSE <<Min(ready)>> \o LexKahn(n, E, done \cup {Min(ready)})

LexTopologicalSort(n, E) ==
    LET s == LexKahn(n, E, {}) IN [i \in Nodes(n) |-> s[i + 1]]

------------------------------------------------------------------------------
(* The liveness plan: RandomNetwork.__init__, repeated in graph.py's test *)

\* span of the node at position i: the position of its last successor, or
\* the number of nodes when it has none.
SpanMin(n, E, ord, i) ==
    LET nextnodes == {PosOf(ord, s) : s \in Succ(E, ord[i])}
    IN  IF nextnodes # {} THEN Min(nextnodes) ELSE n

Span(n, E, ord, i) ==
    LET nextnodes == {PosOf(ord, s) : s \in Succ(E, ord[i])}
    IN  IF nextnodes # {} THEN Max(nextnodes) ELSE n

ISpans(n, E, ord) == [i \in Nodes(n) |-> Span(n, E, ord, i)]

\* live[order]: the positions before `order` whose span reaches it.
LiveAtStrict(n, ispans, k) ==
    SortedSeq({inode \in Nodes(n) : ispans[inode] > k /\ inode < k})

LiveAtInclusive(n, ispans, k) ==
    SortedSeq({inode \in Nodes(n) : ispans[inode] >= k /\ inode <= k})

LiveAt(n, ispans, k) ==
    SortedSeq({inode \in Nodes(n) : ispans[inode] >= k /\ inode < k})

Liveness(n, E, ord) ==
    LET ispans == ISpans(n, E, ord)
    IN  [k \in Nodes(n) |-> LiveAt(n, ispans, k)]

\* maximum #live-vars
Peak(n, lv) == Max({Len(lv[k]) : k \in Nodes(n)})

------------------------------------------------------------------------------
(* RandomNetwork *)

ExecIdle ==
    /\ nxgraph = [n |-> 0, edges |-> {}]
    /\ nxorder = <<>>
    /\ live = <<>>
    /\ bottom_layer = {}
    /\ outs = <<>>
    /\ fed = <<>>
    /\ order = 0
    /\ epc = "off"

ExecInit ==
    /\ nxgraph \in UNION {ForwardDags(n) : n \in 1 .. MaxNodes} \cup {Star5, Chain5}
    /\ nxorder = <<>>
    /\ live = <<>>
    /\ bottom_layer = {}
    /\ outs = <<>>
    /\ fed = <<>>
    /\ order = 0
    /\ epc = "init"

\* RandomNetwork.__init__
Construct ==
    /\ epc = "init"
    /\ \E ord \in TopologicalSorts(nxgraph.n, nxgraph.edges) :
          /\ nxorder' = ord
          /\ live' = Liveness(nxgraph.n, nxgraph.edges, ord)
    /\ bottom_layer' = {v \in Nodes(nxgraph.n) : Succ(nxgraph.edges, v) = {}}
    /\ outs' = <<>>
    /\ fed' = [k \in {} |-> <<>>]
    /\ order' = 0
    /\ epc' = "forward"
    /\ UNCHANGED nxgraph

\* self.pred[nxnode], in iteration order (ascending id, the insertion order
\* of the generator's DAGs).
PredList(v) == SortedSeq(Pred(nxgraph.edges, v))

\* forward's lookups for the node at position k: for each predecessor, its
\* position ipred and iout = self.live[k].index(ipred).
LookupsByPosition(k) ==
    LET ps == PredList(nxorder[k])
    IN  [j \in DOMAIN ps |->
            LET ipred == PosOf(nxorder, ps[j])
            IN  [ipred |-> ipred, iout |-> ipred]]

Lookups(k) ==
    LET ps == PredList(nxorder[k])
    IN  [j \in DOMAIN ps |->
            LET ipred == PosOf(nxorder, ps[j])
            IN  [ipred |-> ipred, iout |-> Index(live[k], ipred)]]

\* del outs[i] for every i of to_delete, highest index first.
RECURSIVE DeleteAscending(_, _)
DeleteAscending(s, to_delete) ==
    IF to_delete = {} THEN s
    ELSE LET i == Min(to_delete)
             t == IF i < Len(s)
                  THEN SubSeq(s, 1, i) \o SubSeq(s, i + 2, Len(s))
                  ELSE s
         IN  DeleteAscending(t, to_delete \ {i})

DeleteAll(s, to_delete) ==
    LET keep == {i \in DOMAIN s : (i - 1) \notin to_delete}
        idx == SortedSeq(keep)
    IN  [j \in DOMAIN idx |-> s[idx[j]]]

\* One iteration of forward's loop.  A failing list.index is a ValueError and
\* an index past the end of outs an IndexError; `order is not len - 1`
\* compares small integers, which the interpreter keeps unique, so it is
\* the comparison of their values for the node counts explored here.
Step ==
    /\ epc = "forward"
    /\ order < nxgraph.n
    /\ LET n == nxgraph.n
           nxnode == nxorder[order]
           lk == Lookups(order)
           last == (order = n - 1)
           to_delete == {lk[j].iout : j \in
                           {i \in DOMAIN lk : ~last /\ lk[i].ipred \notin Range(live[order + 1])}}
       IN  IF \E j \in DOMAIN lk : lk[j].iout = -1
           THEN /\ epc' = "ValueError"
                /\ UNCHANGED <<outs, fed, order>>
           ELSE IF \E j \in DOMAIN lk : lk[j].iout >= Len(outs)
           THEN /\ epc' = "IndexError"
                /\ UNCHANGED <<outs, fed, order>>
           ELSE /\ fed' = [k \in DOMAIN fed \cup {order} |->
                             IF k # order THEN fed[k]
                             ELSE IF DOMAIN lk = {} THEN <<"x">>
                             ELSE [j \in DOMAIN lk |-> outs[lk[j].iout + 1]]]
                /\ outs' = Append(DeleteAll(outs, to_delete), nxnode)
                /\ order' = order + 1
                /\ epc' = epc
    /\ UNCHANGED <<nxgraph, nxorder, live, bottom_layer>>

\* After the loop: torch.stack(outs) and the mean over it.
Aggregate ==
    /\ epc = "forward"
    /\ order = nxgraph.n
    /\ epc' = "done"
    /\ UNCHANGED <<nxgraph, nxorder, live, bottom_layer, outs, fed, order>>

------------------------------------------------------------------------------
(* Undirected graphs and the three random models of networkx *)

\* Largest node counts tried for the ER, BA and WS models in a single call of
\* generate (WS: with K = 2, and with a larger K), largest node count and
\* graph count of a batch of several graphs.
ErNodes == 4
BaNodes == 4
WsNodes == 6
WsDenseNodes == 5
BatchNodes == 3
MaxGraphs == 2

\* P in percent; M; K.  K = 3 is odd and M = 0 is below networkx's minimum.
PVals == {0, 50, 100}
MVals == {0, 1, 2}
KVals == {2, 3, 4}
SeedInts == {42}

AllPairs(n) == {{u, v} : u, v \in Nodes(n)} \ {{u} : u \in Nodes(n)}

Adj(n, E, u) == {w \in Nodes(n) : {u, w} \in E}

RECURSIVE Reach(_, _, _)
Reach(n, E, S) ==
    LET T == S \cup UNION {Adj(n, E, u) : u \in S}
    IN  IF T = S THEN S ELSE Reach(n, E, T)

\* nx.is_connected, for n >= 1.
IsConnected(n, E) == Reach(n, E, {0}) = Nodes(n)

\* nx.erdos_renyi_graph(n, p): every pair is an edge with probability p.
ErdosRenyi(n, p) ==
    IF p = 0 THEN {{}}
    ELSE IF p = 100 THEN {AllPairs(n)}
    ELSE SUBSET AllPairs(n)

\* The ring lattice watts_strogatz_graph starts from: each node joined to
\* its k/2 nearest neighbours on each side.
Ring(n, k) ==
    {{u, (u + j) % n} : u \in Nodes(n), j \in 1 .. (k \div 2)}

\* The nodes w the rewiring of an edge of u may choose: not u, not already a
\* neighbour; none when u is joined to all other nodes.
RewireTargets(n, E, u) ==
    IF Cardinality(Adj(n, E, u)) >= n - 1 THEN {}
    ELSE {w \in Nodes(n) : w # u /\ {u, w} \notin E}

------------------------------------------------------------------------------
(* GraphGenerator.generate's conversion to a directed graph *)

\* nx.DiGraph(G) of an undirected G: both directions of every edge.
DiGraph(n, E) == {e \in Nodes(n) \X Nodes(n) : {e[1], e[2]} \in E}

ToDagReversed(n, E) ==
    DiGraph(n, E) \ {e \in DiGraph(n, E) : e[1] <= e[2]}

\* remove_edges_from(ebunch), ebunch the edges with e[0] >= e[1].
ToDag(n, E) ==
    DiGraph(n, E) \ {e \in DiGraph(n, E) : e[1] >= e[2]}

------------------------------------------------------------------------------
(* get_graphs and GraphGenerator *)

GenIdle ==
    /\ gargs = [model |-> "off"]
    /\ seeds = <<>>
    /\ Gs = <<>>
    /\ gi = 0
    /\ gpc = "off"
    /\ U = {}
    /\ D = {}
    /\ drawn = FALSE
    /\ wsj = 0
    /\ wsu = 0
    /\ basrc = 0
    /\ barep = {}

NodeCap(a) ==
    CASE a.model = "ER" -> ErNodes
      [] a.model = "BA" -> BaNodes
      [] a.model = "WS" -> IF a.K <= 2 THEN WsNodes ELSE WsDenseNodes

\* The calls of get_graphs the model explores.  seeds is None, one integer
\* or a list of ngraphs integers; a seed of -1 in the list `seeds` is None.
GenArgs ==
    {a \in [model : {"ER", "BA", "WS"}, P : PVals, M : MVals, K : KVals,
            ngraphs : 1 .. MaxGraphs, nnodes : 1 .. WsNodes,
            seeds : [kind : {"none", "int", "list"}, val : SeedInts]] :
        /\ a.model = "ER" => a.M = 1 /\ a.K = 2
        /\ a.model = "BA" => a.P = 0 /\ a.K = 2
        /\ a.model = "WS" => a.M = 1
        /\ a.nnodes <= (IF a.ngraphs = 1 THEN NodeCap(a) ELSE BatchNodes)}

GenInit ==
    /\ gargs \in GenArgs
    /\ seeds = <<>>
    /\ Gs = <<>>
    /\ gi = 0
    /\ gpc = "start"
    /\ U = {}
    /\ D = {}
    /\ drawn = FALSE
    /\ wsj = 0
    /\ wsu = 0
    /\ basrc = 0
    /\ barep = {}

\* GraphGenerator.__init__: the assertions on the parameters.
ParamsValid(a) ==
    CASE a.model = "ER" -> a.P <= 100 /\ a.P >= 0
      [] a.model = "BA" -> TRUE
      [] a.model = "WS" -> a.K % 2 = 0 /\ a.P <= 100 /\ a.P >= 0

\* range(seeds, seeds + ngraphs - 1)
SeedRange(s, ngraphs) == [i \in 1 .. (ngraphs - 1) |-> s + i - 1]

SeedRangeFull(s, ngraphs) == [i \in 1 .. ngraphs |-> s + i - 1]

\* get_graphs up to its loop: the lists nnodes and seeds, the generator.
GetGraphsStart ==
    /\ gpc = "start"
    /\ seeds' = CASE gargs.seeds.kind = "none" -> [i \in 1 .. gargs.ngraphs |-> -1]
                  [] gargs.seeds.kind = "int" -> SeedRange(gargs.seeds.val, gargs.ngraphs)
                  [] gargs.seeds.kind = "list" -> SeedRangeFull(gargs.seeds.val, gargs.ngraphs)
    /\ gpc' = IF ParamsValid(gargs) THEN "loop" ELSE "AssertionError"
    /\ Gs' = <<>>
    /\ gi' = 0
    /\ UNCHANGED <<gargs, U, D, drawn, wsj, wsu, basrc, barep>>

\* The head of get_graphs' loop and generate up to its first random draw.
GenerateCall ==
    /\ gpc = "loop"
    /\ gi < gargs.ngraphs
    /\ LET n == gargs.nnodes IN
       IF gi >= Len(seeds)
       THEN /\ gpc' = "IndexError"
            /\ UNCHANGED <<U, wsj, wsu, basrc, barep>>
       ELSE CASE gargs.model = "ER" ->
                   /\ gpc' = "er_draw"
                   /\ UNCHANGED <<U, wsj, wsu, basrc, barep>>
              [] gargs.model = "BA" ->
                   IF ~(gargs.M < n)
                   THEN /\ gpc' = "AssertionError"
                        /\ UNCHANGED <<U, wsj, wsu, basrc, barep>>
                   ELSE IF gargs.M < 1
                   THEN /\ gpc' = "NetworkXError"
                        /\ UNCHANGED <<U, wsj, wsu, basrc, barep>>
                   ELSE /\ gpc' = "ba_grow"
                        /\ U' = {}
                        /\ basrc' = gargs.M
                        /\ barep' = {}
                        /\ UNCHANGED <<wsj, wsu>>
              [] gargs.model = "WS" ->
                   IF ~(gargs.K < n)
                   THEN /\ gpc' = "AssertionError"
                        /\ UNCHANGED <<U, wsj, wsu, basrc, barep>>
                   ELSE /\ gpc' = "ws_rewire"
                        /\ U' = Ring(n, gargs.K)
                        /\ wsj' = 1
                        /\ wsu' = 0
                        /\ UNCHANGED <<basrc, barep>>
    /\ drawn' = FALSE
    /\ UNCHANGED <<gargs, seeds, Gs, gi, D>>

\* Line 37: one draw of the rejection loop.  A generator seeded with an
\* integer is seeded anew by every call, so it repeats its first draw.
ErDraw ==
    /\ gpc = "er_draw"
    /\ IF drawn /\ seeds[gi + 1] # -1
       THEN U' = U
       ELSE U' \in ErdosRenyi(gargs.nnodes, gargs.P)
    /\ drawn' = TRUE
    /\ gpc' = "er_check"
    /\ UNCHANGED <<gargs, seeds, Gs, gi, D, wsj, wsu, basrc, barep>>

\* Lines 38-39: leave the loop when the draw is connected.
ErCheck ==
    /\ gpc = "er_check"
    /\ gpc' = IF IsConnected(gargs.nnodes, U) THEN "to_dag" ELSE "er_draw"
    /\ UNCHANGED <<gargs, seeds, Gs, gi, U, D, drawn, wsj, wsu, basrc, barep>>

\* barabasi_albert_graph: one pass of its loop.  The new node `source` is
\* joined to m targets: the m initial nodes at first, afterwards m distinct
\* nodes drawn from repeated_nodes.
BaGrow ==
    /\ gpc = "ba_grow"
    /\ \E T \in SUBSET Nodes(basrc) :
          /\ Cardinality(T) = gargs.M
          /\ IF basrc = gargs.M THEN T = Nodes(gargs.M) ELSE T \subseteq barep
          /\ U' = U \cup {{basrc, t} : t \in T}
          /\ barep' = barep \cup T \cup {basrc}
    /\ basrc' = basrc + 1
    /\ gpc' = IF basrc + 1 < gargs.nnodes THEN "ba_grow" ELSE "to_dag"
    /\ UNCHANGED <<gargs, seeds, Gs, gi, D, drawn, wsj, wsu>>

\* watts_strogatz_graph: one pass of its rewiring loop, for the edge from
\* u to its j-th right neighbour v.
WsRewire ==
    /\ gpc = "ws_rewire"
    /\ LET n == gargs.nnodes
           u == wsu
           v == (wsu + wsj) % n
           T == RewireTargets(n, U, u)
       IN  \/ /\ gargs.P < 100 \/ T = {}
              /\ U' = U
           \/ /\ gargs.P > 0
              /\ \E w \in T : U' = (U \ {{u, v}}) \cup {{u, w}}
    /\ IF wsu + 1 < gargs.nnodes
       THEN /\ wsu' = wsu + 1
            /\ wsj' = wsj
            /\ gpc' = gpc
       ELSE /\ wsu' = 0
            /\ wsj' = wsj + 1
            /\ gpc' = IF wsj + 1 <= gargs.K \div 2 THEN "ws_rewire" ELSE "to_dag"
    /\ UNCHANGED <<gargs, seeds, Gs, gi, D, drawn, basrc, barep>>

\* Lines 49-58 of generate and get_graphs' Gs.append of what it returns.
MakeDirected ==
    /\ gpc = "to_dag"
    /\ D' = ToDag(gargs.nnodes, U)
    /\ Gs' = Append(Gs, [n |-> gargs.nnodes, edges |-> ToDag(gargs.nnodes, U),
                         seed |-> seeds[gi + 1]])
    /\ gi' = gi + 1
    /\ gpc' = "loop"
    /\ UNCHANGED <<gargs, seeds, U, drawn, wsj, wsu, basrc, barep>>

\* get_graphs' return.
GetGraphsReturn ==
    /\ gpc = "loop"
    /\ gi = gargs.ngraphs
    /\ gpc' = "returned"
    /\ UNCHANGED <<gargs, seeds, Gs, gi, U, D, drawn, wsj, wsu, basrc, barep>>

------------------------------------------------------------------------------
(* The reorder search of graph.py's test() *)

\* Node count of the graphs searched, and the trials explored.
SearchNodes == 4
MaxTrials == 2

num_reorder == 20

\* Gopt = None
NoGraph == [n |-> 0, edges |-> {}]

NodePermutations(n) ==
    {f \in [Nodes(n) -> Nodes(n)] : \A i, j \in Nodes(n) : i # j => f[i] # f[j]}

\* nx.relabel_nodes(G, mapping)
Relabel(G, mapping) ==
    [n |-> G.n, edges |-> {<<mapping[e[1]], mapping[e[2]]>> : e \in G.edges}]

\* Lines 114-127 and 136: the peak of G's liveness plan under its
\* lexicographical topological order.
MeasuredPeak(G) ==
    Peak(G.n, Liveness(G.n, G.edges, LexTopologicalSort(G.n, G.edges)))

SearchIdle ==
    /\ sG = NoGraph
    /\ min_lives = 0
    /\ Gopt = NoGraph
    /\ si = 0
    /\ evaluated = <<>>

SearchInit ==
    /\ sG \in UNION {ForwardDags(n) : n \in 1 .. SearchNodes}
    /\ min_lives = sG.n
    /\ Gopt = NoGraph
    /\ si = 0
    /\ evaluated = <<>>

\* One iteration of the loop of lines 109-140; the model explores the first
\* MaxTrials of the num_reorder trials.
ReorderTrial ==
    /\ si < num_reorder
    /\ si < MaxTrials
    /\ sG # NoGraph
    /\ LET nlives == MeasuredPeak(sG) IN
       \E new_order \in NodePermutations(sG.n) :
          /\ sG' = Relabel(sG, new_order)
          /\ IF nlives < min_lives
             THEN /\ min_lives' = nlives
                  /\ Gopt' = Relabel(sG, new_order)
             ELSE UNCHANGED <<min_lives, Gopt>>
          /\ evaluated' = Append(evaluated, [G |-> sG, nlives |-> nlives])
    /\ si' = si + 1

------------------------------------------------------------------------------
(* Specifications *)

\* RandomNetwork: construction and one forward pass.
Init == ExecInit /\ GenIdle /\ SearchIdle

Next ==
    \/ Construct /\ UNCHANGED <<genVars, searchVars>>
    \/ Step /\ UNCHANGED <<genVars, searchVars>>
    \/ Aggregate /\ UNCHANGED <<genVars, searchVars>>

Spec == Init /\ [][Next]_vars

\* get_graphs and generate.
GenSpecInit == ExecIdle /\ GenInit /\ SearchIdle

GenNext ==
    \/ GetGraphsStart /\ UNCHANGED <<execVars, searchVars>>
    \/ GenerateCall /\ UNCHANGED <<execVars, searchVars>>
    \/ ErDraw /\ UNCHANGED <<execVars, searchVars>>
    \/ ErCheck /\ UNCHANGED <<execVars, searchVars>>
    \/ BaGrow /\ UNCHANGED <<execVars, searchVars>>
    \/ WsRewire /\ UNCHANGED <<execVars, searchVars>>
    \/ MakeDirected /\ UNCHANGED <<execVars, searchVars>>
    \/ GetGraphsReturn /\ UNCHANGED <<execVars, searchVars>>

GenSpec == GenSpecInit /\ [][GenNext]_vars

\* A draw of the rejection loop that comes out connected.
ErDrawConnected ==
    ErDraw /\ IsConnected(gargs.nnodes, U') /\ UNCHANGED <<execVars, searchVars>>

\* The interpreter keeps running the call, and a random source that can
\* draw a connected graph again and again does so at some time.
FairGenSpec ==
    GenSpecInit /\ [][GenNext]_vars /\ WF_vars(GenNext) /\ SF_vars(ErDrawConnected)

\* The reorder search.
SearchSpecInit == ExecIdle /\ GenIdle /\ SearchInit

SearchNext == ReorderTrial /\ UNCHANGED <<execVars, genVars>>

SearchSpec == SearchSpecInit /\ [][SearchNext]_vars

------------------------------------------------------------------------------
(* Properties *)

Built == epc \in {"forward", "done"}

\* The undirected skeleton of a directed edge set.
Skeleton(E) == {{e[1], e[2]} : e \in E}

\* C1: when forward has executed all order positions, the buffers still held
\* (those given to the final mean) are exactly the results of the
\* out-degree-zero nodes.
C1_HeldAreTerminalResults ==
    epc = "done" => Range(outs) = bottom_layer

\* span(i) as the specification defines it: the position of the last
\* successor of the node at position i, or the final position.
SpecSpan(i) ==
    LET nextnodes == {PosOf(nxorder, s) : s \in Succ(nxgraph.edges, nxorder[i])}
    IN  IF nextnodes # {} THEN Max(nextnodes) ELSE nxgraph.n - 1

\* C2: live-set(k) = { i : i < k and span(i) >= k } for every step k; hence
\* live-set(k) is within 0..k-1, position i is absent from live-set(k) for
\* k > span(i), and an out-degree-zero node stays live at every later step.
C2_LiveSetMatchesSpan ==
    Built =>
        \A k \in Nodes(nxgraph.n) :
            /\ Range(live[k]) = {i \in Nodes(nxgraph.n) : i < k /\ SpecSpan(i) >= k}
            /\ Range(live[k]) \subseteq 0 .. (k - 1)
            /\ \A i \in Nodes(nxgraph.n) :
                  /\ k > SpecSpan(i) => i \notin Range(live[k])
                  /\ (i < k /\ nxorder[i] \in bottom_layer) => i \in Range(live[k])

C2_Witness ==
    /\ epc = "done"
    /\ nxgraph.n = 4
    /\ \E i \in Nodes(nxgraph.n) :
          Succ(nxgraph.edges, nxorder[i]) # {} /\ SpecSpan(i) < 3
    /\ \E i \in Nodes(nxgraph.n) : i < 3 /\ nxorder[i] \in bottom_layer

\* C3: get_graphs with graphCount >= 1 and one integer seed s does not fail
\* and returns graphCount graphs, the i-th generated with seed s + i.
C3_IntSeedReturnsAllGraphs ==
    gargs.seeds.kind = "int" =>
        /\ gpc # "IndexError"
        /\ gpc = "returned" =>
              /\ Len(Gs) = gargs.ngraphs
              /\ \A i \in DOMAIN Gs : Gs[i].seed = gargs.seeds.val + i - 1

\* C4: generate for the ER model always terminates: the rejection loop ends,
\* with a connected graph or with a GenerationTimeout.
C4_ErGenerateTerminates ==
    (gargs.model = "ER") =>
        <>(gpc \in {"returned", "IndexError", "AssertionError", "GenerationTimeout"})

\* C5: every graph generate returns, for ER, BA and WS, has a connected
\* undirected skeleton.
C5_ReturnedGraphsConnected ==
    \A i \in DOMAIN Gs : IsConnected(Gs[i].n, Skeleton(Gs[i].edges))

\* C6: after any number of trials >= 1 the retained best graph is the
\* labeling that was measured to have the retained best peak: its own peak
\* is the best peak, and it is the first measured labeling with that peak.
C6_BestGraphHasBestPeak ==
    si >= 1 =>
        /\ Gopt # NoGraph
        /\ MeasuredPeak(Gopt) = min_lives
        /\ \E t \in DOMAIN evaluated :
              /\ evaluated[t].G = Gopt
              /\ evaluated[t].nlives = min_lives
              /\ \A r \in 1 .. (t - 1) : evaluated[r].nlives # min_lives

\* C7 as stated: the star 0->1, 0->2, 0->3, 0->4 has peak live-count 4, and
\* the live-set has that size at order position 1.
C7_StarPeakAtPositionOne ==
    (Built /\ nxgraph = Star5) =>
        /\ Peak(5, live) = 4
        /\ Len(live[1]) = 4

\* C7 amended: the star has peak live-count 4, reached at the last order
\* position only; the live-set at position k holds k buffers, one at
\* position 1.
C7_StarPeakAtLastPosition ==
    (Built /\ nxgraph = Star5) =>
        /\ Peak(5, live) = 4
        /\ \A k \in Nodes(5) : Len(live[k]) = k
        /\ Range(live[1]) = {0}

C7_Witness ==
    epc = "done" /\ nxgraph = Star5

\* C8 as stated: the chain 0->1->2->3->4 has a live-count of 1 at every step
\* of the order, so its peak is 1.
C8_ChainLiveCountOneEverywhere ==
    (Built /\ nxgraph = Chain5) =>
        /\ \A k \in Nodes(5) : Len(live[k]) = 1
        /\ Peak(5, live) = 1

\* C8 amended: the chain has an empty live-set at the first step and a
\* live-count of 1, the immediate predecessor, at every later step; its
\* peak is 1.
C8_ChainLiveCountOneAfterFirst ==
    (Built /\ nxgraph = Chain5) =>
        /\ live[0] = <<>>
        /\ \A k \in 1 .. 4 : live[k] = <<k - 1>>
        /\ Peak(5, live) = 1

C8_Witness ==
    epc = "done" /\ nxgraph = Chain5

\* C9: the execution order RandomNetwork computes is the lexicographically
\* smallest topological order, the one the reorder search measures.
C9_OrderIsLexSmallest ==
    Built => nxorder = LexTopologicalSort(nxgraph.n, nxgraph.edges)

\* C10: the directed graph generate makes has no edge (u, v) with u >= v,
\* keeps exactly one direction, low id to high id, of every undirected edge,
\* and is acyclic with the node set unchanged.
C10_DagConversion ==
    (gpc \in {"loop", "returned"} /\ gi >= 1) =>
        LET n == gargs.nnodes IN
        /\ \A e \in D : e[1] < e[2]
        /\ \A u, v \in Nodes(n) :
              (u < v /\ {u, v} \in U) => (<<u, v>> \in D /\ <<v, u>> \notin D)
        /\ Skeleton(D) = U
        /\ Len(LexKahn(n, D, {})) = n
        /\ Gs[gi].n = n /\ Gs[gi].edges = D

C10_Witness ==
    /\ gpc = "returned"
    /\ Cardinality(U) >= 3
    /\ Cardinality(D) = Cardinality(U)

C12_HeldListIsNextLiveSet ==
    (epc = "forward" /\ order >= 1 /\ order <= nxgraph.n - 1) =>
        /\ Len(outs) = Len(live[order])
        /\ \A j \in DOMAIN outs : outs[j] = nxorder[live[order][j]]

\* Two or more buffers have been released and some are still held.
C12_Witness ==
    /\ epc = "forward"
    /\ order >= 1 /\ order <= nxgraph.n - 1
    /\ Len(outs) >= 1
    /\ Len(outs) <= order - 2

====
